---------------------------- MODULE Spec2Model ----------------------------
(***************************************************************************)
(* The aggregation and fraud-signal engine of the fraud detector:          *)
(* generateReport (src/main.go) as a state machine.  One step of the       *)
(* machine is one iteration of the loop over gameData (Fold), the last     *)
(* step is everything generateReport does after the loop (Finalize).       *)
(*                                                                         *)
(* gameData holds the part of the input slice the loop has ranged over; a  *)
(* run over a stream is the behaviour that folds its events in order and   *)
(* then finalizes.                                                         *)
(*                                                                         *)
(* Conventions:                                                            *)
(*   - a Go map is a function whose DOMAIN is the set of keys present;     *)
(*     reading an absent key gives the zero value (Get);                   *)
(*   - float64 timestamps are whole seconds; the wall clock is UTC;        *)
(*   - a formatted time is the second it formats (formatting is one to one *)
(*     on whole seconds);                                                  *)
(*   - an RTP value is the exact ratio [num, den] in lowest terms; on the  *)
(*     amounts of this model (far below 2^53) two float64 results are      *)
(*     equal, or ordered, exactly when the ratios are.                     *)
(***************************************************************************)
EXTENDS Integers, Sequences, FiniteSets, TLC

VARIABLES
    pc,               \* "loop": ranging over gameData; "done": report returned
    gameData,         \* the events ranged over so far, in stream order
    totalBets, totalWins, totalBetAmount, totalWinAmount,
    uniquePlayers, uniqueGames,
    uniqueBetIDs, uniqueWinIDs,
    timeStats,        \* map hour -> TimeStat
    minTime, maxTime,
    playerBalances,   \* map playerID -> sequence of balances
    duplicateBets, duplicateWins,
    playerStats,      \* report.PlayerStats
    gameStats,        \* report.GameStats
    reportTimeStats,  \* report.TimeStats
    suspiciousEvents, \* report.SuspiciousEvents
    summary,          \* report.Summary
    variant,          \* which run this is: "files" (line 129) or "loki" (line 881)
    logs,             \* run: the entries readMultipleLogFiles returned
    parsedData,       \* run: the slice parseGameData returned
    detectedCurrency, \* run: the currency label found, "" when none
    runErr,           \* run: the error returned, NoError when none
    fcAmount,         \* formatCurrency: the argument amount
    formatted         \* formatCurrency: the result, a sequence of characters

\* The state of run around generateReport, and of formatCurrency.
runVars == <<variant, logs, parsedData, detectedCurrency, runErr>>
formatVars == <<fcAmount, formatted>>

vars == <<pc, gameData, totalBets, totalWins, totalBetAmount, totalWinAmount,
          uniquePlayers, uniqueGames, uniqueBetIDs, uniqueWinIDs, timeStats,
          minTime, maxTime, playerBalances, duplicateBets, duplicateWins,
          playerStats, gameStats, reportTimeStats, suspiciousEvents, summary,
          variant, logs, parsedData, detectedCurrency, runErr, fcAmount,
          formatted>>

-----------------------------------------------------------------------------
(* Bounds of the model. *)

\* Events per stream under Spec.
MaxEvents == 3

\* Events per stream under SpecRank.
MaxRankEvents == 7

\* Base-stake bets per stream under SpecLong.
MaxLongBets == 149

\* Wins per stream under SpecLong.
MaxLongWins == 1

\* Equal stakes before the larger one under SpecTies.
MaxTieRun == 12

\* Bets of each of the two players under SpecPair.
MaxPairBets == 101

\* Events per stream under SpecSpan.
MaxSpanEvents == 3

\* Events per stream under SpecBook.
MaxBookEvents == 3

\* Log entries per run under SpecRun.
MaxLogLines == 3

\* Events per stream under SpecDays.
MaxDayEvents == 3

\* The amounts -MaxSmallAmount .. MaxSmallAmount are formatted under
\* SpecFormat, next to a few larger ones.
MaxSmallAmount == 1100

-----------------------------------------------------------------------------
(* Go maps and small helpers. *)

Get(m, k, zero) == IF k \in DOMAIN m THEN m[k] ELSE zero

Put(m, k, v) == [x \in (DOMAIN m) \cup {k} |-> IF x = k THEN v ELSE m[x]]

EmptyMap == [x \in {} |-> 0]

Range(s) == {s[i] : i \in DOMAIN s}

RECURSIVE GCD(_, _)
GCD(a, b) == IF b = 0 THEN a ELSE GCD(b, a % b)

\* The exact value of a float64 quotient num/den (den > 0, num >= 0).
Ratio(num, den) ==
    LET g == GCD(num, den) IN [num |-> num \div g, den |-> den \div g]

ZeroRatio == [num |-> 0, den |-> 1]

\* r > k for a ratio r and an integer k.
RatioGreater(r, k) == r.num > k * r.den

-----------------------------------------------------------------------------
(* Zero values of the report's records. *)

ZeroPlayerStat ==
    [PlayerID |-> "", RTP |-> ZeroRatio, TotalBetAmount |-> 0,
     TotalWinAmount |-> 0, NetResult |-> 0, LastBalance |-> 0,
     TotalBets |-> 0, TotalWins |-> 0, TopBets |-> <<>>, TopWins |-> <<>>]

ZeroGameStat ==
    [GameID |-> "", RTP |-> ZeroRatio, TotalBetAmount |-> 0,
     TotalWinAmount |-> 0, TotalBets |-> 0, TotalWins |-> 0, Players |-> 0]

ZeroTimeStat ==
    [Hour |-> 0, TotalBets |-> 0, TotalWins |-> 0,
     TotalBetAmount |-> 0, TotalWinAmount |-> 0]

ZeroSummary ==
    [TotalBets |-> 0, TotalWins |-> 0, TotalBetAmount |-> 0,
     TotalWinAmount |-> 0, NetResult |-> 0, RTP |-> ZeroRatio,
     UniquePlayers |-> 0, UniqueGames |-> 0, TimeSpan |-> <<>>]

\* time.Unix(int64(ts), 0).Hour()
HourOf(ts) == (ts \div 3600) % 24

\* time.Unix(int64(ts), 0).Format("2006-01-02 15:04:05")
FormatTime(ts) == ts

-----------------------------------------------------------------------------
(* The loop body of generateReport, lines 271-385. *)

\* Mutant of IsBet: the amount is not looked at.
IsBetAnyAmount(data) == data.Message = "SendBet"

\* Mutant of IsBet: a bet of amount zero counts.
IsBetNonNegative(data) == data.Message = "SendBet" /\ data.Bet >= 0

\* Line 296: the event is a bet that counts.
IsBet(data) == data.Message = "SendBet" /\ data.Bet > 0

\* Mutant of IsWin: the amount is not looked at.
IsWinAnyAmount(data) == ~IsBet(data) /\ data.Message = "SendWin"

\* Line 343: the event is a win that counts (the else-if of line 296).
IsWin(data) == ~IsBet(data) /\ data.Message = "SendWin" /\ data.Win > 0

\* Mutant of BetDuplicate: the ledger is never consulted.
BetDuplicateNever(data) == FALSE

\* Mutant of BetDuplicate: an identifier counts as processed only for the
\* player it was processed for.
BetDuplicateSamePlayer(data) ==
    /\ data.BetID # ""
    /\ \E i \in DOMAIN gameData :
          /\ gameData[i].Message = "SendBet" /\ gameData[i].Bet > 0
          /\ gameData[i].BetID = data.BetID
          /\ gameData[i].PlayerID = data.PlayerID

\* Mutant of BetDuplicate: one ledger for bets and wins.
BetDuplicateAnyLedger(data) ==
    data.BetID # "" /\ data.BetID \in (uniqueBetIDs \cup uniqueWinIDs)

\* Lines 298-299: the bet carries an identifier that was already processed.
BetDuplicate(data) == data.BetID # "" /\ data.BetID \in uniqueBetIDs

\* Mutant of WinDuplicate: the ledger is never consulted.
WinDuplicateNever(data) == FALSE

\* Mutant of WinDuplicate: one ledger for bets and wins.
WinDuplicateShared(data) ==
    data.WinID # "" /\ data.WinID \in (uniqueBetIDs \cup uniqueWinIDs)

\* Lines 345-346: the win carries an identifier that was already processed.
WinDuplicate(data) == data.WinID # "" /\ data.WinID \in uniqueWinIDs

\* Mutant of BetLedger: the identifier is recorded even when it is empty.
BetLedgerAlways(data) == uniqueBetIDs \cup {data.BetID}

\* Lines 298, 304: the bet ledger after a bet that is not a duplicate.
BetLedger(data) ==
    IF data.BetID # "" THEN uniqueBetIDs \cup {data.BetID} ELSE uniqueBetIDs

\* Lines 345, 351: the win ledger after a win that is not a duplicate.
WinLedger(data) ==
    IF data.WinID # "" THEN uniqueWinIDs \cup {data.WinID} ELSE uniqueWinIDs

\* Lines 318-322.
TopBetOf(data) ==
    [Amount |-> data.Bet, RoundID |-> data.RoundID,
     Time |-> FormatTime(data.Timestamp)]

\* Lines 364-368.
TopWinOf(data) ==
    [Amount |-> data.Win, RoundID |-> data.RoundID,
     Time |-> FormatTime(data.Timestamp)]

\* Lines 311-323: the player's record after an accepted bet.
PlayerAfterBet(pStat, data) ==
    [pStat EXCEPT !.PlayerID = data.PlayerID,
                  !.TotalBets = @ + 1,
                  !.TotalBetAmount = @ + data.Bet,
                  !.LastBalance = data.Balance,
                  !.TopBets = Append(@, TopBetOf(data))]

\* Mutant of PlayerAfterWin: line 361 is missing, a win leaves the balance.
PlayerAfterWinKeepsBalance(pStat, data) ==
    [pStat EXCEPT !.TotalWins = @ + 1,
                  !.TotalWinAmount = @ + data.Win,
                  !.TopWins = Append(@, TopWinOf(data))]

\* Lines 358-369: the player's record after an accepted win.
PlayerAfterWin(pStat, data) ==
    [pStat EXCEPT !.TotalWins = @ + 1,
                  !.TotalWinAmount = @ + data.Win,
                  !.LastBalance = data.Balance,
                  !.TopWins = Append(@, TopWinOf(data))]

\* Lines 328-334: the game's record after an accepted bet (Players is 0 in
\* the zero value already, so lines 332-334 change nothing).
GameAfterBet(gStat, data) ==
    [gStat EXCEPT !.GameID = data.GameID,
                  !.TotalBets = @ + 1,
                  !.TotalBetAmount = @ + data.Bet]

\* Mutant of GameAfterWin: line 376 is missing, the amount is not added.
GameAfterWinCountOnly(gStat, data) == [gStat EXCEPT !.TotalWins = @ + 1]

\* Lines 374-376: the game's record after an accepted win.
GameAfterWin(gStat, data) ==
    [gStat EXCEPT !.TotalWins = @ + 1,
                  !.TotalWinAmount = @ + data.Win]

\* Lines 338-340: the hour bucket after an accepted bet.
TimeAfterBet(tStat, data) ==
    [tStat EXCEPT !.TotalBets = @ + 1, !.TotalBetAmount = @ + data.Bet]

\* Lines 380-382: the hour bucket after an accepted win.
TimeAfterWin(tStat, data) ==
    [tStat EXCEPT !.TotalWins = @ + 1, !.TotalWinAmount = @ + data.Win]

\* Line 308.
TotalBetAmountAfter(data) == totalBetAmount + data.Bet

\* Mutant of TotalWinAmountAfter: the bet amount is added, as in line 308.
TotalWinAmountCopied(data) == totalWinAmount + data.Bet

\* Line 355.
TotalWinAmountAfter(data) == totalWinAmount + data.Win

\* Mutant of UniquePlayersAfter: the set is replaced, not extended.
UniquePlayersLatest(data) == {data.PlayerID}

\* Line 272.
UniquePlayersAfter(data) == uniquePlayers \cup {data.PlayerID}

\* Line 273.
UniqueGamesAfter(data) == uniqueGames \cup {data.GameID}

\* Lines 276-278.
MaxTimeAfter(data) ==
    IF data.Timestamp > maxTime THEN data.Timestamp ELSE maxTime

\* Lines 279-281.
MinTimeAfter(data) ==
    IF minTime < 0 \/ data.Timestamp < minTime THEN data.Timestamp ELSE minTime

\* Lines 287-293: the hour buckets once the event's bucket exists.
TimeStatsTouched(data) ==
    LET hour == HourOf(data.Timestamp) IN
    IF hour \in DOMAIN timeStats
    THEN timeStats
    ELSE Put(timeStats, hour, [ZeroTimeStat EXCEPT !.Hour = hour])

\* One iteration of the loop of line 271 on the event data.
Fold(data) ==
    LET hour    == HourOf(data.Timestamp)
        touched == TimeStatsTouched(data)
    IN
    /\ pc = "loop"
    /\ gameData' = Append(gameData, data)
    /\ uniquePlayers' = UniquePlayersAfter(data)
    /\ uniqueGames' = UniqueGamesAfter(data)
    /\ maxTime' = MaxTimeAfter(data)
    /\ minTime' = MinTimeAfter(data)
    /\ playerBalances' =
           Put(playerBalances, data.PlayerID,
               Append(Get(playerBalances, data.PlayerID, <<>>), data.Balance))
    /\ IF IsBet(data)
       THEN IF BetDuplicate(data)
            THEN \* lines 300-302: count the duplicate and continue
                 /\ duplicateBets' = duplicateBets + 1
                 /\ timeStats' = touched
                 /\ UNCHANGED <<totalBets, totalBetAmount, totalWins,
                                totalWinAmount, uniqueBetIDs, uniqueWinIDs,
                                playerStats, gameStats, duplicateWins>>
            ELSE \* lines 304-341
                 /\ uniqueBetIDs' = BetLedger(data)
                 /\ totalBets' = totalBets + 1
                 /\ totalBetAmount' = TotalBetAmountAfter(data)
                 /\ playerStats' =
                        Put(playerStats, data.PlayerID,
                            PlayerAfterBet(Get(playerStats, data.PlayerID,
                                               ZeroPlayerStat), data))
                 /\ gameStats' =
                        Put(gameStats, data.GameID,
                            GameAfterBet(Get(gameStats, data.GameID,
                                             ZeroGameStat), data))
                 /\ timeStats' =
                        Put(touched, hour, TimeAfterBet(touched[hour], data))
                 /\ UNCHANGED <<totalWins, totalWinAmount, uniqueWinIDs,
                                duplicateBets, duplicateWins>>
       ELSE IF IsWin(data)
       THEN IF WinDuplicate(data)
            THEN \* lines 347-349: count the duplicate and continue
                 /\ duplicateWins' = duplicateWins + 1
                 /\ timeStats' = touched
                 /\ UNCHANGED <<totalBets, totalBetAmount, totalWins,
                                totalWinAmount, uniqueBetIDs, uniqueWinIDs,
                                playerStats, gameStats, duplicateBets>>
            ELSE \* lines 351-383
                 /\ uniqueWinIDs' = WinLedger(data)
                 /\ totalWins' = totalWins + 1
                 /\ totalWinAmount' = TotalWinAmountAfter(data)
                 /\ playerStats' =
                        Put(playerStats, data.PlayerID,
                            PlayerAfterWin(Get(playerStats, data.PlayerID,
                                               ZeroPlayerStat), data))
                 /\ gameStats' =
                        Put(gameStats, data.GameID,
                            GameAfterWin(Get(gameStats, data.GameID,
                                             ZeroGameStat), data))
                 /\ timeStats' =
                        Put(touched, hour, TimeAfterWin(touched[hour], data))
                 /\ UNCHANGED <<totalBets, totalBetAmount, uniqueBetIDs,
                                duplicateBets, duplicateWins>>
       ELSE \* neither branch: only the bucket of lines 291-293
            /\ timeStats' = touched
            /\ UNCHANGED <<totalBets, totalBetAmount, totalWins,
                           totalWinAmount, uniqueBetIDs, uniqueWinIDs,
                           playerStats, gameStats, duplicateBets,
                           duplicateWins>>
    /\ UNCHANGED <<pc, reportTimeStats, suspiciousEvents, summary>>
    /\ UNCHANGED <<runVars, formatVars>>

-----------------------------------------------------------------------------
(* After the loop: the derived statistics, lines 387-482. *)

\* Line 398: the length the top lists are cut to.
TopN == 5

\* Line 413: the volume floor and the ratio ceiling of the High RTP rule.
HighRTPBets == 100
HighRTPPercent == 150

\* Mutant of RTPOf: no test of bet > 0; x / 0 is +Inf and 0 / 0 is NaN.
RTPUnguarded(win, bet) ==
    IF bet = 0
    THEN [num |-> IF win > 0 THEN 1 ELSE 0, den |-> 0]
    ELSE Ratio(win * 100, bet)

\* Mutant of RTPOf: the quotient is not scaled to a percentage.
RTPFraction(win, bet) == IF bet > 0 THEN Ratio(win, bet) ELSE ZeroRatio

\* Lines 390-392, 424-426, 457-460: float64(win) / float64(bet) * 100 when
\* bet > 0, and the zero value the field was left with otherwise.
RTPOf(win, bet) == IF bet > 0 THEN Ratio(win * 100, bet) ELSE ZeroRatio

\* Lines 395-397: the less function of the top lists, larger amount first.
LessTop(x, y) == x.Amount > y.Amount

Swap(s, i, j) == [s EXCEPT ![i] = s[j], ![j] = s[i]]

\* sort.Slice on at most 12 elements is insertion sort (Go 1.19 and later,
\* the README's prerequisite): each element sinks while it is less than its
\* left neighbour.
RECURSIVE Sink(_, _)
Sink(s, j) ==
    IF j > 1 /\ LessTop(s[j], s[j - 1]) THEN Sink(Swap(s, j, j - 1), j - 1) ELSE s

RECURSIVE InsertionFrom(_, _)
InsertionFrom(s, i) ==
    IF i > Len(s) THEN s ELSE InsertionFrom(Sink(s, i), i + 1)

InsertionSort(s) == InsertionFrom(s, 2)

\* Mutant of Limit: the last TopN elements are kept.
LimitTail(s) == IF Len(s) > TopN THEN SubSeq(s, Len(s) - TopN + 1, Len(s)) ELSE s

\* Lines 398-400, 406-408.
Limit(s) == IF Len(s) > TopN THEN SubSeq(s, 1, TopN) ELSE s

MaxAmount(s) ==
    CHOOSE a \in {s[i].Amount : i \in DOMAIN s} :
        \A i \in DOMAIN s : s[i].Amount <= a

RemoveOne(s, x) ==
    LET i == CHOOSE k \in DOMAIN s :
                 s[k] = x /\ \A l \in DOMAIN s : s[l] = x => k <= l
    IN SubSeq(s, 1, i - 1) \o SubSeq(s, i + 1, Len(s))

\* The first k elements of every order of s that is sorted by LessTop:
\* elements with equal amounts in any order.
RECURSIVE TopPick(_, _)
TopPick(s, k) ==
    IF k = 0 \/ s = <<>>
    THEN {<<>>}
    ELSE LET m     == MaxAmount(s)
             cands == {s[i] : i \in {j \in DOMAIN s : s[j].Amount = m}}
         IN UNION {{<<c>> \o t : t \in TopPick(RemoveOne(s, c), k - 1)} :
                   c \in cands}

\* Lines 395-400 (and 403-408): the lists sort.Slice and the cut may leave.
\* sort.Slice is not stable: beyond 12 elements (pdqsort) the order of
\* elements with equal amounts is whatever the build produces.
SortAndLimit(s) ==
    IF Len(s) <= 12 THEN {Limit(InsertionSort(s))} ELSE TopPick(s, TopN)

\* Lines 389-410: the records a player's record may become.
FinalPlayerSet(pStat) ==
    {[pStat EXCEPT !.NetResult = pStat.TotalWinAmount - pStat.TotalBetAmount,
                   !.RTP = RTPOf(pStat.TotalWinAmount, pStat.TotalBetAmount),
                   !.TopBets = tb,
                   !.TopWins = tw] :
        tb \in SortAndLimit(pStat.TopBets), tw \in SortAndLimit(pStat.TopWins)}

\* Mutant of IsSuspicious: the volume floor is not strict.
IsSuspiciousFrom(pStat) ==
    pStat.TotalBets >= HighRTPBets /\ RatioGreater(pStat.RTP, HighRTPPercent)

\* Line 413.
IsSuspicious(pStat) ==
    pStat.TotalBets > HighRTPBets /\ RatioGreater(pStat.RTP, HighRTPPercent)

\* Lines 414-419.  Details holds the two values line 418 renders.
SuspiciousEventOf(playerID, pStat) ==
    [Type |-> "High RTP",
     Description |-> "Player has suspiciously high RTP",
     PlayerID |-> playerID,
     Timestamp |-> "",
     Details |-> <<pStat.RTP, pStat.TotalBets>>]

\* Lines 428-434.
PlayersInGame(gameID) ==
    {gameData[i].PlayerID : i \in {j \in DOMAIN gameData :
                                       gameData[j].GameID = gameID}}

\* Lines 424-435.
FinalGame(gameID, gStat) ==
    [gStat EXCEPT !.RTP = RTPOf(gStat.TotalWinAmount, gStat.TotalBetAmount),
                  !.Players = Cardinality(PlayersInGame(gameID))]

\* Mutant of ByHour: a bucket without a counted bet or win is left out.
RECURSIVE ByHourActive(_)
ByHourActive(hours) ==
    IF hours = {}
    THEN <<>>
    ELSE LET h == CHOOSE x \in hours : \A y \in hours : x <= y
         IN (IF timeStats[h].TotalBets + timeStats[h].TotalWins > 0
             THEN <<timeStats[h]>> ELSE <<>>) \o ByHourActive(hours \ {h})

\* Lines 439-444: the buckets by ascending hour.  The hours of a map are
\* distinct, so every sort leaves this one order.
RECURSIVE ByHour(_)
ByHour(hours) ==
    IF hours = {}
    THEN <<>>
    ELSE LET h == CHOOSE x \in hours : \A y \in hours : x <= y
         IN <<timeStats[h]>> \o ByHour(hours \ {h})

\* Mutant of TimeSpanOf: no test of minTime >= 0.
TimeSpanUnguarded ==
    IF maxTime > minTime
    THEN <<FormatTime(minTime), FormatTime(maxTime)>>
    ELSE <<>>

\* Lines 462-466.
TimeSpanOf ==
    IF minTime >= 0 /\ maxTime > minTime
    THEN <<FormatTime(minTime), FormatTime(maxTime)>>
    ELSE <<>>

\* Lines 447-466.
SummaryOf ==
    [TotalBets |-> totalBets,
     TotalWins |-> totalWins,
     TotalBetAmount |-> totalBetAmount,
     TotalWinAmount |-> totalWinAmount,
     NetResult |-> totalWinAmount - totalBetAmount,
     RTP |-> RTPOf(totalWinAmount, totalBetAmount),
     UniquePlayers |-> Cardinality(uniquePlayers),
     UniqueGames |-> Cardinality(uniqueGames),
     TimeSpan |-> TimeSpanOf]

\* The orders in which a range over a map with the keys S may visit them.
Orders(S) ==
    {o \in [1..Cardinality(S) -> S] :
        \A i, j \in 1..Cardinality(S) : o[i] = o[j] => i = j}

\* Lines 388-410: the maps report.PlayerStats may become, one final record
\* for each of the players in P.
RECURSIVE FinalMaps(_)
FinalMaps(P) ==
    IF P = {}
    THEN {EmptyMap}
    ELSE LET p    == CHOOSE x \in P : TRUE
             rest == FinalMaps(P \ {p})
             recs == FinalPlayerSet(playerStats[p])
         IN {Put(m, p, f) : m \in rest, f \in recs}

\* Lines 412-420 over the whole range of line 388: the events appended when
\* the players are visited in the given order and final holds their records.
FlaggedBy(order, final) ==
    LET all == [i \in DOMAIN order |->
                   SuspiciousEventOf(order[i], final[order[i]])]
        Flagged(ev) == IsSuspicious(final[ev.PlayerID])
    IN SelectSeq(all, Flagged)

\* Lines 387-482.  The range of line 388 visits the players in any order.
Finalize ==
    /\ pc = "loop"
    /\ \E order \in Orders(DOMAIN playerStats) :
       \E final \in FinalMaps(DOMAIN playerStats) :
          /\ playerStats' = final
          /\ suspiciousEvents' = suspiciousEvents \o FlaggedBy(order, final)
    /\ gameStats' = [g \in DOMAIN gameStats |-> FinalGame(g, gameStats[g])]
    /\ reportTimeStats' = ByHour(DOMAIN timeStats)
    /\ summary' = SummaryOf
    /\ pc' = "done"
    /\ UNCHANGED <<gameData, totalBets, totalWins, totalBetAmount,
                   totalWinAmount, uniquePlayers, uniqueGames, uniqueBetIDs,
                   uniqueWinIDs, timeStats, minTime, maxTime, playerBalances,
                   duplicateBets, duplicateWins>>
    /\ UNCHANGED <<runVars, formatVars>>

-----------------------------------------------------------------------------
(* generateReport on every stream of at most MaxEvents events. *)

\* The nil error.
NoError == [text |-> "", cause |-> ""]

\* Lines 247-268: the accumulators and the report when the loop starts.
ReportInit ==
    /\ gameData = <<>>
    /\ totalBets = 0
    /\ totalWins = 0
    /\ totalBetAmount = 0
    /\ totalWinAmount = 0
    /\ uniquePlayers = {}
    /\ uniqueGames = {}
    /\ uniqueBetIDs = {}
    /\ uniqueWinIDs = {}
    /\ timeStats = EmptyMap
    /\ minTime = -1
    /\ maxTime = 0
    /\ playerBalances = EmptyMap
    /\ duplicateBets = 0
    /\ duplicateWins = 0
    /\ playerStats = EmptyMap
    /\ gameStats = EmptyMap
    /\ reportTimeStats = <<>>
    /\ suspiciousEvents = <<>>
    /\ summary = ZeroSummary

\* generateReport called on its own: nothing of run or formatCurrency.
Init ==
    /\ pc = "loop"
    /\ ReportInit
    /\ variant = "files"
    /\ logs = <<>>
    /\ parsedData = <<>>
    /\ detectedCurrency = ""
    /\ runErr = NoError
    /\ fcAmount = 0
    /\ formatted = <<>>

\* A decoded log line (GameData), the fields generateReport reads.
Event(msg, player, game, round, ts, betID, winID, bet, win, balance) ==
    [Message |-> msg, PlayerID |-> player, GameID |-> game, RoundID |-> round,
     Timestamp |-> ts, BetID |-> betID, WinID |-> winID, Bet |-> bet,
     Win |-> win, Balance |-> balance]

\* Who plays what, when: player, game, round, timestamp, balance after.
\* Player A plays two games in two hours, game g1 has two players, and the
\* later timestamps do not come with the later balances.
Seats ==
    {<<"A", "g1", "r1", 0, 10>>,
     <<"A", "g2", "r2", 3600, 20>>,
     <<"B", "g1", "r3", 3600, 30>>}

TxIDs == {"", "x"}

BetEvent(seat, id, amount) ==
    Event("SendBet", seat[1], seat[2], seat[3], seat[4], id, "", amount, 0, seat[5])

WinEvent(seat, id, amount) ==
    Event("SendWin", seat[1], seat[2], seat[3], seat[4], "", id, 0, amount, seat[5])

\* The first seat, the one that also sends the unusual events.
Seat1 == <<"A", "g1", "r1", 0, 10>>

Events ==
    \* bets and wins of amount 1 from every seat, with and without identifier
    {BetEvent(seat, id, 1) : seat \in Seats, id \in TxIDs}
    \cup {WinEvent(seat, id, 1) : seat \in Seats, id \in TxIDs}
    \* a second amount
    \cup {BetEvent(Seat1, id, 2) : id \in TxIDs}
    \cup {WinEvent(Seat1, id, 2) : id \in TxIDs}
    \* inert events: a zero bet and a negative win that carry an identifier,
    \* and a message that is neither SendBet nor SendWin
    \cup {BetEvent(Seat1, "x", 0), WinEvent(Seat1, "x", -1),
          Event("Spin", "B", "g2", "r4", 7200, "x", "x", 1, 1, 40)}
    \* events that carry both a bet and a win
    \cup {Event("SendBet", "A", "g1", "r1", 0, "x", "x", 1, 2, 10),
          Event("SendWin", "A", "g1", "r1", 0, "x", "x", 1, 2, 10)}

FoldStep == \E data \in Events : Len(gameData) < MaxEvents /\ Fold(data)

Next == FoldStep \/ Finalize

Spec == Init /\ [][Next]_vars

-----------------------------------------------------------------------------
(* generateReport on the streams of one player who bets and wins the       *)
(* amounts 1 and 2 in any order, each event in a round of its own.         *)

RoundNames ==
    <<"r1", "r2", "r3", "r4", "r5", "r6", "r7", "r8", "r9", "r10", "r11",
      "r12", "r13", "r14", "r15">>

RankEvents ==
    LET round == RoundNames[Len(gameData) + 1] IN
    {Event("SendBet", "A", "g1", round, 0, "", "", a, 0, 0) : a \in {1, 2}}
    \cup {Event("SendWin", "A", "g1", round, 0, "", "", 0, a, 0) : a \in {1, 2}}

RankStep == \E data \in RankEvents : Len(gameData) < MaxRankEvents /\ Fold(data)

NextRank == RankStep \/ Finalize

SpecRank == Init /\ [][NextRank]_vars

-----------------------------------------------------------------------------
(* generateReport on the streams of one player who places MaxTieRun equal  *)
(* stakes (or collects as many equal wins), each in a round of its own,    *)
(* and then a larger one.                                                  *)

TieEvents ==
    LET k     == Len(gameData) + 1
        round == RoundNames[k]
        kinds == IF k = 1 THEN {"SendBet", "SendWin"} ELSE {gameData[1].Message}
        sizes == IF k <= MaxTieRun THEN {1} ELSE {2, 3}
    IN {Event(m, "A", "g1", round, 0, "", "",
              IF m = "SendBet" THEN a ELSE 0,
              IF m = "SendWin" THEN a ELSE 0, 0) : m \in kinds, a \in sizes}

TieStep == \E data \in TieEvents : Len(gameData) <= MaxTieRun /\ Fold(data)

NextTies == TieStep \/ Finalize

SpecTies == Init /\ [][NextTies]_vars

-----------------------------------------------------------------------------
(* generateReport on the long streams of one player: an opening stake,     *)
(* then up to MaxLongBets bets of the base stake, then up to MaxLongWins   *)
(* wins.  All in one round, so equal amounts make equal list entries.      *)

OpeningStakes == {6, 106, 9400}
BaseStakes == {6}
LongWins == {900, 2000, 15000, 15001}

WinsFolded == Len(SelectSeq(gameData, LAMBDA e : e.Message = "SendWin"))

LongEvents ==
    IF gameData = <<>>
    THEN {Event("SendBet", "A", "g1", "r", 0, "", "", a, 0, 0) : a \in OpeningStakes}
    ELSE {Event("SendBet", "A", "g1", "r", 0, "", "", a, 0, 0) :
             a \in IF WinsFolded = 0 /\ Len(gameData) <= MaxLongBets
                   THEN BaseStakes ELSE {}}
         \cup {Event("SendWin", "A", "g1", "r", 0, "", "", 0, w, 0) :
                  w \in IF WinsFolded < MaxLongWins THEN LongWins ELSE {}}

LongStep == \E data \in LongEvents : Fold(data)

NextLong == LongStep \/ Finalize

SpecLong == Init /\ [][NextLong]_vars

-----------------------------------------------------------------------------
(* generateReport on the streams of two busy players: player A places      *)
(* MaxPairBets bets of 1 and collects one win, then player B does the      *)
(* same.  A win of 400 makes a player's RTP exceed 150, a win of 100 does  *)
(* not.                                                                    *)

PairWins == {100, 400}

PairCount(p, m) ==
    Len(SelectSeq(gameData, LAMBDA e : e.PlayerID = p /\ e.Message = m))

PairEvents ==
    LET Bet(p)    == Event("SendBet", p, "g1", "r", 0, "", "", 1, 0, 0)
        Win(p, w) == Event("SendWin", p, "g1", "r", 0, "", "", 0, w, 0)
        turnA == PairCount("A", "SendWin") = 0
        turnB == ~turnA /\ PairCount("B", "SendWin") = 0
    IN (IF turnA /\ PairCount("A", "SendBet") < MaxPairBets
        THEN {Bet("A")} ELSE {})
       \cup (IF turnA /\ PairCount("A", "SendBet") = MaxPairBets
             THEN {Win("A", w) : w \in PairWins} ELSE {})
       \cup (IF turnB /\ PairCount("B", "SendBet") < MaxPairBets
             THEN {Bet("B")} ELSE {})
       \cup (IF turnB /\ PairCount("B", "SendBet") = MaxPairBets
             THEN {Win("B", w) : w \in PairWins} ELSE {})

PairStep == \E data \in PairEvents : Fold(data)

NextPair == PairStep \/ Finalize

SpecPair == Init /\ [][NextPair]_vars

-----------------------------------------------------------------------------
(* generateReport on the streams of one player whose events carry any of   *)
(* four timestamps: two hours before the epoch, the epoch, one hour after  *)
(* it and the same hour one day later.  Each is a counted bet, a counted   *)
(* win, a bet of amount zero or a message of another kind.                 *)

SpanTimes == {-7200, 0, 3600, 90000}

SpanEvents ==
    {Event("SendBet", "A", "g1", "r1", ts, "", "", b, 0, 0) :
        ts \in SpanTimes, b \in {0, 1}}
    \cup {Event("SendWin", "A", "g1", "r1", ts, "", "", 0, 1, 0) : ts \in SpanTimes}
    \cup {Event("Spin", "A", "g1", "r1", ts, "", "", 0, 0, 0) : ts \in SpanTimes}

SpanStep == \E data \in SpanEvents : Len(gameData) < MaxSpanEvents /\ Fold(data)

NextSpan == SpanStep \/ Finalize

SpecSpan == Init /\ [][NextSpan]_vars

-----------------------------------------------------------------------------
(* generateReport on the streams of the documented scenario: bets of 100   *)
(* and wins of 50, with the identifiers b1 and w1 or without identifier.   *)

BookEvents ==
    {Event("SendBet", p, "g1", "r1", 0, id, "", 100, 0, 900) :
        p \in {"A", "B"}, id \in {"", "b1"}}
    \cup {Event("SendWin", "A", "g1", "r1", 0, "", id, 0, 50, 950) :
             id \in {"", "w1"}}

BookStep == \E data \in BookEvents : Len(gameData) < MaxBookEvents /\ Fold(data)

NextBook == BookStep \/ Finalize

SpecBook == Init /\ [][NextBook]_vars

-----------------------------------------------------------------------------
(* run: parseGameData, the currency detection, generateReport and          *)
(* printReport.  The entries readMultipleLogFiles returns are the input.   *)
(* A log line is its text together with what json.Unmarshal makes of that  *)
(* text: the error it reports (cause, "" when it decodes) and the GameData *)
(* it fills in.                                                            *)

\* GameData with the currency field run reads.
RunData(e, c) ==
    [Message |-> e.Message, PlayerID |-> e.PlayerID, GameID |-> e.GameID,
     RoundID |-> e.RoundID, Timestamp |-> e.Timestamp, BetID |-> e.BetID,
     WinID |-> e.WinID, Bet |-> e.Bet, Win |-> e.Win, Balance |-> e.Balance,
     Currency |-> c]

\* The zero value of GameData: what "{}" decodes to.
ZeroGameData == RunData(Event("", "", "", "", 0, "", "", 0, 0, 0), "")

LogEntry(text, cause, data) ==
    [Line |-> [text |-> text, cause |-> cause, data |-> data]]

LogLines ==
    {LogEntry("", "unexpected end of JSON input", ZeroGameData),
     LogEntry("{", "unexpected end of JSON input", ZeroGameData),
     LogEntry("x", "invalid character 'x' looking for beginning of value",
              ZeroGameData),
     LogEntry("{}", "", ZeroGameData),
     LogEntry("bet A NGN", "",
              RunData(Event("SendBet", "A", "g1", "r1", 0, "b1", "", 100, 0, 900), "NGN")),
     LogEntry("bet A", "",
              RunData(Event("SendBet", "A", "g1", "r1", 0, "b1", "", 100, 0, 900), "")),
     LogEntry("win B", "",
              RunData(Event("SendWin", "B", "g1", "r2", 3600, "", "w1", 0, 50, 50), ""))}

\* Lines 235-236: json.Unmarshal([]byte(logEntry.Line), &data).
Unmarshal(line) ==
    IF line.cause # ""
    THEN [err |-> line.cause, data |-> ZeroGameData]
    ELSE [err |-> "", data |-> line.data]

\* Mutant of ParseFrom: a line that does not decode is skipped.
RECURSIVE ParseFromSkipping(_, _, _)
ParseFromSkipping(entries, i, acc) ==
    IF i > Len(entries)
    THEN [gameData |-> acc, err |-> NoError]
    ELSE IF entries[i].Line.text = "" \/ Unmarshal(entries[i].Line).err # ""
         THEN ParseFromSkipping(entries, i + 1, acc)
         ELSE ParseFromSkipping(entries, i + 1,
                                Append(acc, Unmarshal(entries[i].Line).data))

\* Lines 230-243: the loop of parseGameData from entry i on, with acc the
\* slice built so far.  A line that does not decode ends it with nil and
\* the wrapped error of line 237.
RECURSIVE ParseFrom(_, _, _)
ParseFrom(entries, i, acc) ==
    IF i > Len(entries)
    THEN [gameData |-> acc, err |-> NoError]
    ELSE IF entries[i].Line.text = ""
         THEN ParseFrom(entries, i + 1, acc)
         ELSE LET r == Unmarshal(entries[i].Line) IN
              IF r.err # ""
              THEN [gameData |-> <<>>,
                    err |-> [text |-> "unmarshaling", cause |-> r.err]]
              ELSE ParseFrom(entries, i + 1, Append(acc, r.data))

\* Lines 227-244.
parseGameData(entries) == ParseFrom(entries, 1, <<>>)

\* Lines 157-163: the first non-empty currency of the events.
FirstCurrency(data) ==
    LET with == {i \in DOMAIN data : data[i].Currency # ""} IN
    IF with = {}
    THEN ""
    ELSE data[CHOOSE i \in with : \A j \in with : i <= j].Currency

\* Lines 146-154 (and 905-914): parse, and return the error if there is one.
RunParse ==
    /\ pc = "start"
    /\ LET r == parseGameData(logs) IN
       IF r.err # NoError
       THEN /\ runErr' = r.err
            /\ pc' = "failed"
            /\ UNCHANGED parsedData
       ELSE /\ parsedData' = r.gameData
            /\ pc' = "currency"
            /\ UNCHANGED runErr
    /\ UNCHANGED <<gameData, totalBets, totalWins, totalBetAmount,
                   totalWinAmount, uniquePlayers, uniqueGames, uniqueBetIDs,
                   uniqueWinIDs, timeStats, minTime, maxTime, playerBalances,
                   duplicateBets, duplicateWins, playerStats, gameStats,
                   reportTimeStats, suspiciousEvents, summary, variant, logs,
                   detectedCurrency, formatVars>>

\* Lines 156-169: detect the currency and fail if there is none.  The run
\* of line 881 has no such step: it goes on to generateReport (line 916).
RunCurrency ==
    /\ pc = "currency"
    /\ IF variant = "files"
       THEN /\ detectedCurrency' = FirstCurrency(parsedData)
            /\ IF FirstCurrency(parsedData) = ""
               THEN /\ runErr' = [text |-> "No currency information found in logs",
                                  cause |-> ""]
                    /\ pc' = "failed"
               ELSE /\ pc' = "loop"
                    /\ UNCHANGED runErr
       ELSE /\ pc' = "loop"
            /\ UNCHANGED <<detectedCurrency, runErr>>
    /\ UNCHANGED <<gameData, totalBets, totalWins, totalBetAmount,
                   totalWinAmount, uniquePlayers, uniqueGames, uniqueBetIDs,
                   uniqueWinIDs, timeStats, minTime, maxTime, playerBalances,
                   duplicateBets, duplicateWins, playerStats, gameStats,
                   reportTimeStats, suspiciousEvents, summary, variant, logs,
                   parsedData, formatVars>>

\* Line 171: generateReport ranges over the parsed events, all of them,
\* and then derives the report.
RunFold ==
    /\ Len(gameData) < Len(parsedData)
    /\ Fold(parsedData[Len(gameData) + 1])

RunFinalize ==
    /\ Len(gameData) = Len(parsedData)
    /\ Finalize

\* Lines 173-175: print the report and return nil.
RunReturn ==
    /\ pc = "done"
    /\ pc' = "returned"
    /\ UNCHANGED <<gameData, totalBets, totalWins, totalBetAmount,
                   totalWinAmount, uniquePlayers, uniqueGames, uniqueBetIDs,
                   uniqueWinIDs, timeStats, minTime, maxTime, playerBalances,
                   duplicateBets, duplicateWins, playerStats, gameStats,
                   reportTimeStats, suspiciousEvents, summary, runVars,
                   formatVars>>

\* The streams of at most MaxLogLines log entries.
LogStreams == UNION {[1..n -> LogLines] : n \in 0..MaxLogLines}

InitRun ==
    /\ pc = "start"
    /\ ReportInit
    /\ variant \in {"files", "loki"}
    /\ logs \in LogStreams
    /\ parsedData = <<>>
    /\ detectedCurrency = ""
    /\ runErr = NoError
    /\ fcAmount = 0
    /\ formatted = <<>>

NextRun == RunParse \/ RunCurrency \/ RunFold \/ RunFinalize \/ RunReturn

SpecRun == InitRun /\ [][NextRun]_vars

-----------------------------------------------------------------------------
(* generateReport on the streams of two players and two games whose bets   *)
(* and wins fall at 01:00 of one day and at 01:00 of the next.             *)

DayTimes == {3600, 90000}

DayEvents ==
    {Event("SendBet", p, g, "r1", ts, "", "", 1, 0, 0) :
        p \in {"A", "B"}, g \in {"g1", "g2"}, ts \in DayTimes}
    \cup {Event("SendWin", p, g, "r1", ts, "", "", 0, 2, 0) :
             p \in {"A", "B"}, g \in {"g1", "g2"}, ts \in DayTimes}
    \cup {Event("SendBet", "A", "g1", "r1", ts, "x", "", 3, 0, 0) : ts \in DayTimes}
    \cup {Event("Spin", "B", "g2", "r1", 7200, "", "", 5, 5, 0)}

DayStep == \E data \in DayEvents : Len(gameData) < MaxDayEvents /\ Fold(data)

NextDays == DayStep \/ Finalize

SpecDays == Init /\ [][NextDays]_vars

-----------------------------------------------------------------------------
(* formatCurrency on the amounts of a bounded set. *)

DigitChars == <<"0", "1", "2", "3", "4", "5", "6", "7", "8", "9">>

\* The decimal digits of n >= 0.
RECURSIVE Digits(_)
Digits(n) ==
    IF n < 10
    THEN <<DigitChars[n + 1]>>
    ELSE Append(Digits(n \div 10), DigitChars[(n % 10) + 1])

\* Line 696: strconv.FormatInt(amount, 10), as a sequence of characters.
FormatInt(n) == IF n < 0 THEN <<"-">> \o Digits(-n) ELSE Digits(n)

\* Lines 703-708: the builder after the characters i.. of str (i counts
\* from 0 as in the source), n = len(str).
RECURSIVE WriteFrom(_, _)
WriteFrom(str, i) ==
    LET n == Len(str) IN
    IF i >= n
    THEN <<>>
    ELSE (IF i > 0 /\ (n - i) % 3 = 0 THEN <<",">> ELSE <<>>)
         \o <<str[i + 1]>> \o WriteFrom(str, i + 1)

\* Lines 695-710.
formatCurrency(n) ==
    LET str == FormatInt(n) IN
    IF Len(str) <= 3 THEN str ELSE WriteFrom(str, 0)

LargeAmounts ==
    {-42230000, -1234567, -100000, -99999, -10000, 10000, 99999, 100000,
     1234567, 87450000}

FormatAmounts == (-MaxSmallAmount .. MaxSmallAmount) \cup LargeAmounts

InitFormat ==
    /\ pc = "format"
    /\ ReportInit
    /\ variant = "files"
    /\ logs = <<>>
    /\ parsedData = <<>>
    /\ detectedCurrency = ""
    /\ runErr = NoError
    /\ fcAmount \in FormatAmounts
    /\ formatted = <<>>

FormatStep ==
    /\ pc = "format"
    /\ formatted' = formatCurrency(fcAmount)
    /\ pc' = "formatted"
    /\ UNCHANGED <<gameData, totalBets, totalWins, totalBetAmount,
                   totalWinAmount, uniquePlayers, uniqueGames, uniqueBetIDs,
                   uniqueWinIDs, timeStats, minTime, maxTime, playerBalances,
                   duplicateBets, duplicateWins, playerStats, gameStats,
                   reportTimeStats, suspiciousEvents, summary, runVars,
                   fcAmount>>

NextFormat == FormatStep

SpecFormat == InitFormat /\ [][NextFormat]_vars

-----------------------------------------------------------------------------
(* What the claims speak of, read off the stream alone. *)

\* A SendBet event with a positive bet amount; a SendWin event with a
\* positive win amount.
CountedBet(e) == e.Message = "SendBet" /\ e.Bet > 0
CountedWin(e) == e.Message = "SendWin" /\ e.Win > 0

\* The i-th event of stream s repeats the non-empty identifier of an earlier
\* event of its kind.
LaterBetAt(s, i) ==
    /\ CountedBet(s[i])
    /\ s[i].BetID # ""
    /\ \E j \in 1..(i - 1) : CountedBet(s[j]) /\ s[j].BetID = s[i].BetID

LaterWinAt(s, i) ==
    /\ CountedWin(s[i])
    /\ s[i].WinID # ""
    /\ \E j \in 1..(i - 1) : CountedWin(s[j]) /\ s[j].WinID = s[i].WinID

\* The i-th event of stream s is an accepted bet (win).
AcceptedBetAt(s, i) == CountedBet(s[i]) /\ ~LaterBetAt(s, i)
AcceptedWinAt(s, i) == CountedWin(s[i]) /\ ~LaterWinAt(s, i)

RECURSIVE SumSeq(_)
SumSeq(q) == IF q = <<>> THEN 0 ELSE q[1] + SumSeq(Tail(q))

AcceptedBetSum(s) ==
    SumSeq([i \in DOMAIN s |-> IF AcceptedBetAt(s, i) THEN s[i].Bet ELSE 0])

AcceptedWinSum(s) ==
    SumSeq([i \in DOMAIN s |-> IF AcceptedWinAt(s, i) THEN s[i].Win ELSE 0])

\* This step folds one event: the event, and its place in the stream.
FoldsOne == pc = "loop" /\ pc' = "loop" /\ Len(gameData') = Len(gameData) + 1
Folded == gameData'[Len(gameData')]
FoldedAt == Len(gameData')

PStat(p) == Get(playerStats, p, ZeroPlayerStat)
GStat(g) == Get(gameStats, g, ZeroGameStat)
TStat(h) == Get(timeStats, h, ZeroTimeStat)

\* Every bet count and bet amount the aggregation keeps: global, per
\* player, per game and per hour (an absent record counts as zero).
BetFigures ==
    [total   |-> <<totalBets, totalBetAmount>>,
     players |-> [p \in {"A", "B"} |-> <<PStat(p).TotalBets, PStat(p).TotalBetAmount>>],
     games   |-> [g \in {"g1", "g2"} |-> <<GStat(g).TotalBets, GStat(g).TotalBetAmount>>],
     hours   |-> [h \in 0..23 |-> <<TStat(h).TotalBets, TStat(h).TotalBetAmount>>]]

WinFigures ==
    [total   |-> <<totalWins, totalWinAmount>>,
     players |-> [p \in {"A", "B"} |-> <<PStat(p).TotalWins, PStat(p).TotalWinAmount>>],
     games   |-> [g \in {"g1", "g2"} |-> <<GStat(g).TotalWins, GStat(g).TotalWinAmount>>],
     hours   |-> [h \in 0..23 |-> <<TStat(h).TotalWins, TStat(h).TotalWinAmount>>]]

\* The figures f with one more transaction of the given amount for the
\* player, the game and the hour of event e.
FiguresPlus(f, e, amount) ==
    LET Plus(pair) == <<pair[1] + 1, pair[2] + amount>> IN
    [total   |-> Plus(f.total),
     players |-> [f.players EXCEPT ![e.PlayerID] = Plus(@)],
     games   |-> [f.games EXCEPT ![e.GameID] = Plus(@)],
     hours   |-> [f.hours EXCEPT ![(e.Timestamp \div 3600) % 24] = Plus(@)]]

-----------------------------------------------------------------------------
(* The claims. *)

C1Step ==
    FoldsOne =>
      /\ (CountedBet(Folded) /\ Folded.BetID # "") =>
            IF LaterBetAt(gameData', FoldedAt)
            THEN BetFigures' = BetFigures
            ELSE BetFigures' = FiguresPlus(BetFigures, Folded, Folded.Bet)
      /\ (CountedWin(Folded) /\ Folded.WinID # "") =>
            IF LaterWinAt(gameData', FoldedAt)
            THEN WinFigures' = WinFigures
            ELSE WinFigures' = FiguresPlus(WinFigures, Folded, Folded.Win)

\* C1: among SendBet events with a positive amount that share a non-empty
\* bet_id, the first in stream order adds one bet and its amount to the
\* global, per-player, per-game and per-hour bet figures, and every later
\* one leaves all of them unchanged; likewise for SendWin events sharing a
\* non-empty win_id.
C1_FirstOnlyContributes == [][C1Step]_vars

\* Three bets with the same identifier from two players were folded and
\* one bet is counted.
C1_Witness ==
    /\ Len(gameData) = 3
    /\ \A i \in 1..3 : CountedBet(gameData[i]) /\ gameData[i].BetID = "x"
    /\ gameData[1].PlayerID # gameData[3].PlayerID
    /\ totalBets = 1
    /\ totalBetAmount = gameData[1].Bet
    /\ duplicateBets = 2

\* C2: the bet total is the sum of the amounts of the accepted bets, each
\* once, the win total the sum over the accepted wins, in the running
\* totals and in the Summary; an event is never both an accepted bet and an
\* accepted win, so no event adds to both totals.
C2_Conservation ==
    /\ totalBetAmount = AcceptedBetSum(gameData)
    /\ totalWinAmount = AcceptedWinSum(gameData)
    /\ \A i \in DOMAIN gameData :
          ~(AcceptedBetAt(gameData, i) /\ AcceptedWinAt(gameData, i))
    /\ pc = "done" =>
          /\ summary.TotalBetAmount = AcceptedBetSum(gameData)
          /\ summary.TotalWinAmount = AcceptedWinSum(gameData)

\* A report over a stream with a duplicate bet and with an accepted event
\* that carries both a bet and a win amount.
C2_Witness ==
    /\ pc = "done"
    /\ duplicateBets = 1
    /\ \E i \in DOMAIN gameData :
          /\ gameData[i].Bet > 0 /\ gameData[i].Win > 0
          /\ AcceptedBetAt(gameData, i)
    /\ summary.TotalBetAmount = 1
    /\ summary.TotalWinAmount = 2

\* The event folded by this step is judged Duplicate.
DuplicateFolded ==
    FoldsOne /\ (LaterBetAt(gameData', FoldedAt) \/ LaterWinAt(gameData', FoldedAt))

DuplicateCounted ==
    IF LaterBetAt(gameData', FoldedAt)
    THEN duplicateBets' = duplicateBets + 1 /\ duplicateWins' = duplicateWins
    ELSE duplicateWins' = duplicateWins + 1 /\ duplicateBets' = duplicateBets

\* C3 (as stated): folding an event judged Duplicate leaves the global
\* totals, the per-player and per-game records, the hour buckets, the unique
\* player and game sets, the min and max timestamps and the ledger
\* unchanged, and adds one to the duplicate counter of its kind.
C3_DuplicateChangesNothing ==
    [][DuplicateFolded =>
          /\ DuplicateCounted
          /\ UNCHANGED <<totalBets, totalWins, totalBetAmount, totalWinAmount,
                         playerStats, gameStats, timeStats, uniquePlayers,
                         uniqueGames, minTime, maxTime, uniqueBetIDs,
                         uniqueWinIDs>>]_vars

\* C3 (amended): folding an event judged Duplicate leaves the global
\* totals, the per-player and per-game records, the counters of every hour
\* bucket and the ledger unchanged and adds one to the duplicate counter of
\* its kind; like every event it adds its playerID and gameID to the unique
\* sets, may move the min and max timestamps to its own, and creates its
\* hour's bucket, at zero, when there is none.
C3_DuplicateCountsNothing ==
    [][DuplicateFolded =>
          /\ DuplicateCounted
          /\ UNCHANGED <<totalBets, totalWins, totalBetAmount, totalWinAmount,
                         playerStats, gameStats, uniqueBetIDs, uniqueWinIDs>>
          /\ DOMAIN timeStats' = DOMAIN timeStats \cup {(Folded.Timestamp \div 3600) % 24}
          /\ \A h \in DOMAIN timeStats' :
                timeStats'[h] = IF h \in DOMAIN timeStats
                                THEN timeStats[h]
                                ELSE [ZeroTimeStat EXCEPT !.Hour = h]
          /\ uniquePlayers' = uniquePlayers \cup {Folded.PlayerID}
          /\ uniqueGames' = uniqueGames \cup {Folded.GameID}
          /\ minTime' \in {minTime, Folded.Timestamp}
          /\ maxTime' \in {maxTime, Folded.Timestamp}]_vars

\* A duplicate bet of a second player, in a second hour, was folded: it is
\* counted as a duplicate only, and the player and the hour are new.
C3_Witness ==
    /\ Len(gameData) = 2
    /\ LaterBetAt(gameData, 2)
    /\ duplicateBets = 1
    /\ totalBets = 1
    /\ uniquePlayers = {"A", "B"}
    /\ DOMAIN playerStats = {"A"}
    /\ DOMAIN timeStats = {0, 1}
    /\ maxTime = 3600

\* C4: a bet or win with a positive amount and an empty identifier is
\* counted whatever was folded before it, adds nothing to either duplicate
\* counter and nothing to either ledger set.
C4_EmptyIdentifierIsFresh ==
    [][FoldsOne =>
          /\ (CountedBet(Folded) /\ Folded.BetID = "") =>
                /\ totalBets' = totalBets + 1
                /\ totalBetAmount' = totalBetAmount + Folded.Bet
                /\ UNCHANGED <<duplicateBets, duplicateWins, uniqueBetIDs,
                               uniqueWinIDs>>
          /\ (CountedWin(Folded) /\ Folded.WinID = "") =>
                /\ totalWins' = totalWins + 1
                /\ totalWinAmount' = totalWinAmount + Folded.Win
                /\ UNCHANGED <<duplicateBets, duplicateWins, uniqueBetIDs,
                               uniqueWinIDs>>]_vars

\* Three equal bets without identifier were folded and all three count.
C4_Witness ==
    /\ Len(gameData) = 3
    /\ \A i \in 1..3 : gameData[i] = gameData[1]
    /\ CountedBet(gameData[1])
    /\ gameData[1].BetID = ""
    /\ totalBets = 3
    /\ duplicateBets = 0
    /\ uniqueBetIDs = {}

\* The non-empty identifiers of the counted bets (wins) of a stream.
BetIDsOf(s) == {s[i].BetID : i \in {j \in DOMAIN s : CountedBet(s[j])}} \ {""}
WinIDsOf(s) == {s[i].WinID : i \in {j \in DOMAIN s : CountedWin(s[j])}} \ {""}

\* C5: the bet ledger holds exactly the identifiers of the counted bets and
\* the win ledger exactly those of the counted wins; a win (bet) whose
\* identifier is only in the ledger of the other kind is counted, not
\* rejected.
C5_SeparateLedgers ==
    [][FoldsOne =>
          /\ uniqueBetIDs' = BetIDsOf(gameData')
          /\ uniqueWinIDs' = WinIDsOf(gameData')
          /\ (CountedWin(Folded) /\ Folded.WinID \notin uniqueWinIDs) =>
                totalWins' = totalWins + 1 /\ duplicateWins' = duplicateWins
          /\ (CountedBet(Folded) /\ Folded.BetID \notin uniqueBetIDs) =>
                totalBets' = totalBets + 1 /\ duplicateBets' = duplicateBets]_vars

\* A bet and then a win with the same identifier were folded: both are
\* counted and each ledger holds the identifier.
C5_Witness ==
    /\ Len(gameData) = 2
    /\ CountedBet(gameData[1]) /\ CountedWin(gameData[2])
    /\ gameData[1].BetID = "x" /\ gameData[2].WinID = "x"
    /\ gameData[2].BetID = ""
    /\ totalBets = 1 /\ totalWins = 1
    /\ duplicateBets = 0 /\ duplicateWins = 0
    /\ uniqueBetIDs = {"x"} /\ uniqueWinIDs = {"x"}

\* C6: a bet (win) with a positive amount whose non-empty identifier was
\* on an earlier counted bet (win) of the stream is rejected as Duplicate,
\* whatever its player, game and amount: the duplicate counter of its kind
\* goes up by one and no total and no record changes.
C6_GlobalScope ==
    [][FoldsOne =>
          /\ LaterBetAt(gameData', FoldedAt) =>
                /\ duplicateBets' = duplicateBets + 1
                /\ UNCHANGED <<totalBets, totalBetAmount, playerStats, gameStats>>
          /\ LaterWinAt(gameData', FoldedAt) =>
                /\ duplicateWins' = duplicateWins + 1
                /\ UNCHANGED <<totalWins, totalWinAmount, playerStats, gameStats>>]_vars

\* A bet of player A on game g2 was accepted; a bet of player B on game
\* g1 and a bet of another amount were rejected for its identifier.
C6_Witness ==
    /\ Len(gameData) = 3
    /\ \A i \in 1..3 : CountedBet(gameData[i]) /\ gameData[i].BetID = "x"
    /\ gameData[1].PlayerID = "A" /\ gameData[1].GameID = "g2"
    /\ gameData[2].PlayerID = "B" /\ gameData[2].GameID = "g1"
    /\ gameData[3].Bet # gameData[1].Bet
    /\ duplicateBets = 2
    /\ totalBets = 1
    /\ totalBetAmount = gameData[1].Bet
    /\ DOMAIN playerStats = {"A"}
    /\ DOMAIN gameStats = {"g2"}

\* rtp is 0 when bet is 0 and win / bet * 100 otherwise.
RTPIs(rtp, win, bet) ==
    IF bet = 0
    THEN rtp.num = 0 /\ rtp.den # 0
    ELSE rtp.den # 0 /\ rtp.num * bet = win * 100 * rtp.den

\* C7: in every report each player record, each game record and the
\* summary have rtp 0 when their totalBetAmount is 0, and rtp equal to
\* totalWinAmount / totalBetAmount * 100 when it is positive.
C7_RTPConvention ==
    pc = "done" =>
      /\ \A p \in DOMAIN playerStats :
            RTPIs(playerStats[p].RTP, playerStats[p].TotalWinAmount,
                  playerStats[p].TotalBetAmount)
      /\ \A g \in DOMAIN gameStats :
            RTPIs(gameStats[g].RTP, gameStats[g].TotalWinAmount,
                  gameStats[g].TotalBetAmount)
      /\ RTPIs(summary.RTP, summary.TotalWinAmount, summary.TotalBetAmount)

\* A report with a player who has wins and no bets, and a player with bets
\* of 2 and wins of 1 (rtp 50).
C7_Witness ==
    /\ pc = "done"
    /\ DOMAIN playerStats = {"A", "B"}
    /\ playerStats["B"].TotalBetAmount = 0
    /\ playerStats["B"].TotalWinAmount = 1
    /\ playerStats["B"].RTP = ZeroRatio
    /\ playerStats["A"].TotalBetAmount = 2
    /\ playerStats["A"].RTP = [num |-> 50, den |-> 1]
    /\ summary.RTP = [num |-> 100, den |-> 1]

\* The number of High RTP events the report holds for player p.
FlagsOf(p) ==
    Cardinality({i \in DOMAIN suspiciousEvents :
                    /\ suspiciousEvents[i].PlayerID = p
                    /\ suspiciousEvents[i].Type = "High RTP"})

\* C8: the report holds one High RTP event for a player whose finalized
\* totalBets is above 100 and whose rtp is above 150 percent, and none for
\* any other player; so a player with exactly 100 bets is not flagged, nor
\* one with rtp exactly 150, and a player with 101 bets and rtp 150.01 is.
C8_HighRTPRule ==
    pc = "done" =>
      /\ \A i \in DOMAIN suspiciousEvents :
            /\ suspiciousEvents[i].PlayerID \in DOMAIN playerStats
            /\ suspiciousEvents[i].Type = "High RTP"
      /\ \A p \in DOMAIN playerStats :
            LET st == playerStats[p] IN
            /\ FlagsOf(p) = IF st.TotalBets > 100 /\ st.RTP.num > 150 * st.RTP.den
                            THEN 1 ELSE 0
            /\ st.TotalBets <= 100 => FlagsOf(p) = 0
            /\ st.TotalWinAmount * 100 <= 150 * st.TotalBetAmount => FlagsOf(p) = 0
            /\ (st.TotalBets >= 101 /\ st.TotalWinAmount * 100 > 150 * st.TotalBetAmount)
                  => FlagsOf(p) = 1

\* A report for a player with 101 bets totalling 10000 and wins of 15001
\* (rtp 150.01): one High RTP event.
C8_Witness ==
    /\ pc = "done"
    /\ DOMAIN playerStats = {"A"}
    /\ playerStats["A"].TotalBets = 101
    /\ playerStats["A"].TotalBetAmount = 10000
    /\ playerStats["A"].TotalWinAmount = 15001
    /\ Len(suspiciousEvents) = 1
    /\ suspiciousEvents[1].PlayerID = "A"

\* The amounts of player p's accepted bets (wins) in stream order.
AcceptedBetsOf(s, p) ==
    LET idx == [i \in DOMAIN s |-> i] IN
    [k \in DOMAIN SelectSeq(idx, LAMBDA i : AcceptedBetAt(s, i) /\ s[i].PlayerID = p) |->
        s[SelectSeq(idx, LAMBDA i : AcceptedBetAt(s, i) /\ s[i].PlayerID = p)[k]]]

AcceptedWinsOf(s, p) ==
    LET idx == [i \in DOMAIN s |-> i] IN
    [k \in DOMAIN SelectSeq(idx, LAMBDA i : AcceptedWinAt(s, i) /\ s[i].PlayerID = p) |->
        s[SelectSeq(idx, LAMBDA i : AcceptedWinAt(s, i) /\ s[i].PlayerID = p)[k]]]

\* The numbers of q, largest first.
RECURSIVE Descending(_)
Descending(q) ==
    IF q = <<>>
    THEN <<>>
    ELSE LET m == CHOOSE x \in Range(q) : \A y \in Range(q) : y <= x
             i == CHOOSE k \in DOMAIN q : q[k] = m
         IN <<m>> \o Descending(SubSeq(q, 1, i - 1) \o SubSeq(q, i + 1, Len(q)))

\* top is a ranking of the amounts amts: at most 5 entries, none missing
\* while there is room, amounts descending, and the largest of amts.
RanksLargest(top, amts) ==
    /\ Len(top) <= 5
    /\ Len(top) = IF Len(amts) < 5 THEN Len(amts) ELSE 5
    /\ \A i, j \in DOMAIN top : i < j => top[i].Amount >= top[j].Amount
    /\ [i \in DOMAIN top |-> top[i].Amount] = SubSeq(Descending(amts), 1, Len(top))

\* C9: in the report every player's topBets (topWins) has at most 5
\* entries, sorted by amount descending, and they are the largest amounts
\* of the player's accepted bets (wins): no accepted bet left out is larger
\* than an entry kept.
C9_TopLists ==
    pc = "done" =>
      \A p \in DOMAIN playerStats :
        LET bets == AcceptedBetsOf(gameData, p)
            wins == AcceptedWinsOf(gameData, p)
        IN /\ RanksLargest(playerStats[p].TopBets, [i \in DOMAIN bets |-> bets[i].Bet])
           /\ RanksLargest(playerStats[p].TopWins, [i \in DOMAIN wins |-> wins[i].Win])

\* A report for a player with seven bets, the first of amount 1 and the
\* last of amount 2: the top five are 2, 2, 1, 1, 1 and two bets of 1 are
\* left out.
C9_Witness ==
    /\ pc = "done"
    /\ Len(gameData) = 7
    /\ DOMAIN playerStats = {"A"}
    /\ playerStats["A"].TotalBets = 7
    /\ gameData[1].Bet = 1
    /\ gameData[7].Bet = 2
    /\ [i \in 1..5 |-> playerStats["A"].TopBets[i].Amount] = <<2, 2, 1, 1, 1>>

\* The entries q sorted by amount descending, equal amounts in the order
\* of q.
RECURSIVE StableDescending(_)
StableDescending(q) ==
    IF q = <<>>
    THEN <<>>
    ELSE LET m == CHOOSE x \in {q[i].Amount : i \in DOMAIN q} :
                     \A i \in DOMAIN q : q[i].Amount <= x
         IN SelectSeq(q, LAMBDA e : e.Amount = m)
            \o StableDescending(SelectSeq(q, LAMBDA e : e.Amount # m))

FirstFive(q) == IF Len(q) > 5 THEN SubSeq(q, 1, 5) ELSE q

\* C10: a player's topBets (topWins) is the list of the accepted bets
\* (wins) sorted by amount descending with equal amounts in stream order,
\* cut to its first 5: ties keep their insertion order and the cut keeps
\* the earliest of a group of equal amounts.
C10_StableRanking ==
    pc = "done" =>
      \A p \in DOMAIN playerStats :
        LET bets == AcceptedBetsOf(gameData, p)
            wins == AcceptedWinsOf(gameData, p)
        IN /\ playerStats[p].TopBets =
                 FirstFive(StableDescending(
                     [i \in DOMAIN bets |->
                         [Amount |-> bets[i].Bet, RoundID |-> bets[i].RoundID,
                          Time |-> bets[i].Timestamp]]))
           /\ playerStats[p].TopWins =
                 FirstFive(StableDescending(
                     [i \in DOMAIN wins |->
                         [Amount |-> wins[i].Win, RoundID |-> wins[i].RoundID,
                          Time |-> wins[i].Timestamp]]))

\* C11: the sequence of Suspicious Events of the report is a function of
\* the stream: whichever way the finalization of a stream runs, it lists
\* the flagged players in the same order.
C11_ReproducibleFlags ==
    [][(pc = "loop" /\ pc' = "done") =>
          \A order \in Orders(DOMAIN playerStats) :
             suspiciousEvents' = suspiciousEvents \o FlaggedBy(order, playerStats')]_vars

\* The last of a non-empty set of stream positions.
LastIndex(S) == CHOOSE i \in S : \A j \in S : j <= i

\* The positions of the events of stream s that carry the playerID p, and
\* those of them that are accepted bets or wins.
EventsOf(s, p) == {i \in DOMAIN s : s[i].PlayerID = p}
AcceptedOf(s, p) ==
    {i \in EventsOf(s, p) : AcceptedBetAt(s, i) \/ AcceptedWinAt(s, i)}

\* C12 (as stated): in the report a player's lastBalance is the balance of
\* the last event of the stream, in stream order, that carries the player's
\* playerID, whatever the event.
C12_LastEventBalance ==
    pc = "done" =>
      \A p \in DOMAIN playerStats :
         playerStats[p].LastBalance =
            gameData[LastIndex(EventsOf(gameData, p))].Balance

\* C12 (amended): a player's lastBalance is the balance of the last
\* accepted bet or win of that player in stream order, during the fold and
\* in the report, whatever the timestamps of the player's events; an inert
\* or duplicate event of the player does not overwrite it.
C12_LastAcceptedBalance ==
    \A p \in DOMAIN playerStats :
       /\ AcceptedOf(gameData, p) # {}
       /\ playerStats[p].LastBalance =
             gameData[LastIndex(AcceptedOf(gameData, p))].Balance

\* A report for player A whose bet at second 3600 (balance 20) comes before
\* the bet at second 0 (balance 10) in the stream: lastBalance is 10.
C12_Witness ==
    /\ pc = "done"
    /\ Len(gameData) = 2
    /\ DOMAIN playerStats = {"A"}
    /\ AcceptedBetAt(gameData, 1) /\ AcceptedBetAt(gameData, 2)
    /\ gameData[1].Timestamp > gameData[2].Timestamp
    /\ gameData[1].Balance = 20
    /\ gameData[2].Balance = 10
    /\ playerStats["A"].LastBalance = 10

\* The playerIDs (gameIDs) of the events of a stream.
PlayersOf(s) == {s[i].PlayerID : i \in DOMAIN s}
GamesOf(s) == {s[i].GameID : i \in DOMAIN s}

\* The event is inert: neither a bet nor a win with a positive amount.
Inert(e) == ~CountedBet(e) /\ ~CountedWin(e)

C13Step ==
    /\ FoldsOne =>
          /\ uniquePlayers' = uniquePlayers \cup {Folded.PlayerID}
          /\ uniqueGames' = uniqueGames \cup {Folded.GameID}
          /\ uniquePlayers' = PlayersOf(gameData')
          /\ uniqueGames' = GamesOf(gameData')
          /\ minTime' <= Folded.Timestamp
          /\ Folded.Timestamp <= maxTime'
          /\ Inert(Folded) =>
                /\ BetFigures' = BetFigures
                /\ WinFigures' = WinFigures
                /\ UNCHANGED <<playerStats, gameStats, duplicateBets,
                               duplicateWins>>
    /\ pc' = "done" =>
          /\ summary'.UniquePlayers = Cardinality(PlayersOf(gameData'))
          /\ summary'.UniqueGames = Cardinality(GamesOf(gameData'))

\* C13: folding any event, inert ones included, adds its playerID to the
\* unique-player set and its gameID to the unique-game set and leaves its
\* timestamp within the min and max bounds; folding an inert event changes
\* no bet or win count or amount; the Summary's UniquePlayers and
\* UniqueGames are the numbers of distinct playerIDs and gameIDs of the
\* stream.
C13_InertEventsAreSeen == [][C13Step]_vars

\* A report over two inert events, a zero bet of player A on g1 and a
\* message of another kind of player B on g2 two hours later: two players,
\* two games, a time span, and no bet, win or record.
C13_Witness ==
    /\ pc = "done"
    /\ Len(gameData) = 2
    /\ Inert(gameData[1]) /\ Inert(gameData[2])
    /\ gameData[1].Message = "SendBet"
    /\ gameData[2].Message = "Spin"
    /\ summary.UniquePlayers = 2
    /\ summary.UniqueGames = 2
    /\ summary.TotalBets = 0 /\ summary.TotalWins = 0
    /\ summary.TimeSpan = <<0, 7200>>
    /\ DOMAIN playerStats = {}

\* C14: the numbers of unique players and of unique games never decrease
\* from one step of a run to the next, so the counts after a prefix of the
\* stream are at most the counts after any longer prefix.
C14_MonotonicUniqueCounts ==
    [][/\ Cardinality(uniquePlayers') >= Cardinality(uniquePlayers)
       /\ Cardinality(uniqueGames') >= Cardinality(uniqueGames)
       /\ uniquePlayers \subseteq uniquePlayers'
       /\ uniqueGames \subseteq uniqueGames']_vars

\* Three events were folded: the second brought a second player and the
\* third, of the first player again, left the count at 2.
C14_Witness ==
    /\ Len(gameData) = 3
    /\ gameData[1].PlayerID = "A"
    /\ gameData[2].PlayerID = "B"
    /\ gameData[3].PlayerID = "A"
    /\ Cardinality(uniquePlayers) = 2
    /\ Cardinality(uniqueGames) = 1

\* The playerIDs and gameIDs on the bets and wins with a positive amount of
\* a stream, duplicates included, and on its accepted bets and wins.
CountedAt(s, i) == CountedBet(s[i]) \/ CountedWin(s[i])
AcceptedAt(s, i) == AcceptedBetAt(s, i) \/ AcceptedWinAt(s, i)

\* C15 (as stated): the per-player map of the report has a record for
\* exactly the playerIDs that appear on a Bet or Win event of the stream,
\* and the per-game map for exactly the gameIDs that do.
C15_RecordPerBetOrWin ==
    pc = "done" =>
      /\ DOMAIN playerStats =
            {gameData[i].PlayerID : i \in {j \in DOMAIN gameData : CountedAt(gameData, j)}}
      /\ DOMAIN gameStats =
            {gameData[i].GameID : i \in {j \in DOMAIN gameData : CountedAt(gameData, j)}}

\* C15 (amended): the per-player map of the report has a record for exactly
\* the playerIDs that appear on an accepted bet or win of the stream (a
\* SendBet or SendWin with a positive amount that is not a duplicate), and
\* the per-game map for exactly the gameIDs that do; a playerID or gameID
\* that appears only on inert events or on duplicates has no record.
C15_RecordPerAccepted ==
    pc = "done" =>
      /\ DOMAIN playerStats =
            {gameData[i].PlayerID : i \in {j \in DOMAIN gameData : AcceptedAt(gameData, j)}}
      /\ DOMAIN gameStats =
            {gameData[i].GameID : i \in {j \in DOMAIN gameData : AcceptedAt(gameData, j)}}

\* A report over a bet of player A on g1, a duplicate of it sent by player
\* B, and a message of another kind of player B on g2: one player record
\* and one game record.
C15_Witness ==
    /\ pc = "done"
    /\ Len(gameData) = 3
    /\ AcceptedBetAt(gameData, 1) /\ gameData[1].PlayerID = "A"
    /\ LaterBetAt(gameData, 2) /\ gameData[2].PlayerID = "B"
    /\ gameData[3].Message = "Spin" /\ gameData[3].GameID = "g2"
    /\ DOMAIN playerStats = {"A"}
    /\ DOMAIN gameStats = {"g1"}
    /\ uniquePlayers = {"A", "B"}

\* C16: in the report the Players field of a game's record is the number
\* of distinct playerIDs with at least one accepted bet or win on that
\* game; a player whose events on the game are all inert or duplicates is
\* not counted.
C16_PlayersTransacted ==
    pc = "done" =>
      \A g \in DOMAIN gameStats :
         gameStats[g].Players =
            Cardinality({gameData[i].PlayerID :
                            i \in {j \in DOMAIN gameData :
                                      /\ gameData[j].GameID = g
                                      /\ AcceptedAt(gameData, j)}})

\* The hour of day of a timestamp, 0..23.
ClockHour(ts) == (ts \div 3600) % 24

\* C17: the TimeStats of the report are in strictly ascending order of
\* hour, every hour is in 0..23, the hours are exactly the hours of day of
\* the events of the stream, whatever their kind and amount, and an hour
\* that no accepted bet or win falls in has all counts and amounts zero.
C17_HourlySequence ==
    pc = "done" =>
      /\ \A i, j \in DOMAIN reportTimeStats :
            i < j => reportTimeStats[i].Hour < reportTimeStats[j].Hour
      /\ \A i \in DOMAIN reportTimeStats : reportTimeStats[i].Hour \in 0..23
      /\ {reportTimeStats[i].Hour : i \in DOMAIN reportTimeStats} =
            {ClockHour(gameData[i].Timestamp) : i \in DOMAIN gameData}
      /\ \A i \in DOMAIN reportTimeStats :
            (\A k \in DOMAIN gameData :
                ClockHour(gameData[k].Timestamp) = reportTimeStats[i].Hour
                   => ~AcceptedAt(gameData, k))
            => /\ reportTimeStats[i].TotalBets = 0
               /\ reportTimeStats[i].TotalWins = 0
               /\ reportTimeStats[i].TotalBetAmount = 0
               /\ reportTimeStats[i].TotalWinAmount = 0

\* A report over a zero bet at hour 22, a counted bet at hour 1 and a
\* message of another kind at hour 1 of the next day: hour 1 with one bet,
\* then hour 22 with nothing.
C17_Witness ==
    /\ pc = "done"
    /\ Len(gameData) = 3
    /\ gameData[1].Timestamp = -7200 /\ Inert(gameData[1])
    /\ gameData[2].Timestamp = 3600 /\ CountedBet(gameData[2])
    /\ gameData[3].Timestamp = 90000 /\ gameData[3].Message = "Spin"
    /\ Len(reportTimeStats) = 2
    /\ reportTimeStats[1].Hour = 1 /\ reportTimeStats[1].TotalBets = 1
    /\ reportTimeStats[2].Hour = 22 /\ reportTimeStats[2].TotalBets = 0
    /\ reportTimeStats[2].TotalBetAmount = 0

\* The least and the greatest timestamp of a non-empty stream.
MinTimestamp(s) ==
    CHOOSE t \in {s[i].Timestamp : i \in DOMAIN s} :
        \A i \in DOMAIN s : t <= s[i].Timestamp
MaxTimestamp(s) ==
    CHOOSE t \in {s[i].Timestamp : i \in DOMAIN s} :
        \A i \in DOMAIN s : s[i].Timestamp <= t

\* C18: the TimeSpan of the report's Summary is non-empty exactly when the
\* stream has an event and its greatest timestamp is above its least one;
\* a stream of one event, or of events with one timestamp, has an empty
\* TimeSpan.
C18_TimeSpanPresence ==
    pc = "done" =>
      /\ (summary.TimeSpan # <<>>) <=>
            (gameData # <<>> /\ MaxTimestamp(gameData) > MinTimestamp(gameData))
      /\ Len(gameData) = 1 => summary.TimeSpan = <<>>

\* The stream of the documented scenario was folded: two bets of player A
\* of 100 with the identifier b1, then a win of player A of 50 with the
\* identifier w1.
ScenarioFolded ==
    /\ Len(gameData) = 3
    /\ \A i \in {1, 2} :
          /\ gameData[i].Message = "SendBet" /\ gameData[i].PlayerID = "A"
          /\ gameData[i].Bet = 100 /\ gameData[i].BetID = "b1"
    /\ gameData[3].Message = "SendWin" /\ gameData[3].PlayerID = "A"
    /\ gameData[3].Win = 50 /\ gameData[3].WinID = "w1"

\* C19: the report over [Bet(A, 100, b1), Bet(A, 100, b1), Win(A, 50, w1)]
\* has totalBets 1, totalBetAmount 100, totalWins 1, totalWinAmount 50, one
\* duplicate bet and no duplicate win, and player A has netResult -50 and
\* rtp 50.
C19_Scenario ==
    (pc = "done" /\ ScenarioFolded) =>
      /\ summary.TotalBets = 1
      /\ summary.TotalBetAmount = 100
      /\ summary.TotalWins = 1
      /\ summary.TotalWinAmount = 50
      /\ totalBets = 1 /\ totalBetAmount = 100
      /\ totalWins = 1 /\ totalWinAmount = 50
      /\ duplicateBets = 1
      /\ duplicateWins = 0
      /\ "A" \in DOMAIN playerStats
      /\ playerStats["A"].NetResult = -50
      /\ playerStats["A"].RTP.den # 0
      /\ playerStats["A"].RTP.num = 50 * playerStats["A"].RTP.den

\* The report over the scenario's stream, with the duplicate counted.
C19_Witness ==
    /\ pc = "done"
    /\ ScenarioFolded
    /\ duplicateBets = 1
    /\ DOMAIN playerStats = {"A"}
    /\ playerStats["A"].TotalBets = 1

\* C20: the report over the empty stream has a Summary whose totals,
\* counts, net result, RTP and unique counts are zero and whose TimeSpan is
\* empty, no player record, no game record, no hourly entry and no
\* Suspicious Event.
C20_EmptyStream ==
    (pc = "done" /\ gameData = <<>>) =>
      /\ summary.TotalBets = 0 /\ summary.TotalWins = 0
      /\ summary.TotalBetAmount = 0 /\ summary.TotalWinAmount = 0
      /\ summary.NetResult = 0
      /\ summary.RTP.num = 0 /\ summary.RTP.den # 0
      /\ summary.UniquePlayers = 0 /\ summary.UniqueGames = 0
      /\ summary.TimeSpan = <<>>
      /\ DOMAIN playerStats = {}
      /\ DOMAIN gameStats = {}
      /\ reportTimeStats = <<>>
      /\ suspiciousEvents = <<>>
      /\ duplicateBets = 0 /\ duplicateWins = 0

\* The report over the empty stream.
C20_Witness == pc = "done" /\ gameData = <<>> /\ summary.TotalBets = 0

\* The entry is a non-empty payload that does not decode.
Undecodable(entry) == entry.Line.text # "" /\ entry.Line.cause # ""

HasUndecodable(entries) == \E i \in DOMAIN entries : Undecodable(entries[i])

\* The position of the first payload of the stream that does not decode.
FailPosition(entries) ==
    CHOOSE i \in DOMAIN entries :
        /\ Undecodable(entries[i])
        /\ \A j \in DOMAIN entries : Undecodable(entries[j]) => i <= j

\* C21: when a non-empty payload of the stream cannot be decoded,
\* parseGameData returns an error and no event, not even those decoded
\* before the malformed payload, and run returns that error: it never
\* comes to the currency detection or to generateReport, and no report is
\* built.
C21_FailFast ==
    HasUndecodable(logs) =>
      /\ parseGameData(logs).err # NoError
      /\ parseGameData(logs).gameData = <<>>
      /\ pc \in {"start", "failed"}
      /\ pc = "failed" =>
            /\ runErr = parseGameData(logs).err
            /\ runErr.text = "unmarshaling"
      /\ parsedData = <<>>
      /\ gameData = <<>>
      /\ summary.TotalBets = 0 /\ summary.UniquePlayers = 0
      /\ DOMAIN playerStats = {}

\* A run over two payloads that decode and a third that does not: it
\* failed, and nothing of the first two is kept.
C21_Witness ==
    /\ pc = "failed"
    /\ Len(logs) = 3
    /\ \A i \in {1, 2} : logs[i].Line.text # "" /\ logs[i].Line.cause = ""
    /\ logs[1].Line.data.Message = "SendBet"
    /\ Undecodable(logs[3])
    /\ runErr.text = "unmarshaling"
    /\ parsedData = <<>>
    /\ gameData = <<>>

\* Every payload of the stream decodes and no event carries a currency.
WithoutCurrency(entries) ==
    /\ ~HasUndecodable(entries)
    /\ \A i \in DOMAIN entries :
          entries[i].Line.text # "" => entries[i].Line.data.Currency = ""

\* C22: a run over a stream in which no event carries a currency label
\* does not fail: no error is returned for the missing currency.
C22_MissingCurrencyIsValid ==
    WithoutCurrency(logs) => (pc # "failed" /\ runErr = NoError)

\* C23: the error of a run that failed on an undecodable payload tells the
\* position of the payload: a stream whose first undecodable payload is at
\* another position, with the same parse failure, gives another error.
C23_ErrorLocatesPayload ==
    (pc = "failed" /\ HasUndecodable(logs)) =>
      \A other \in LogStreams :
         (/\ HasUndecodable(other)
          /\ FailPosition(other) # FailPosition(logs)
          /\ other[FailPosition(other)].Line.cause =
                logs[FailPosition(logs)].Line.cause)
         => parseGameData(other).err # runErr

\* The sum of f[x] over the keys x in S.
RECURSIVE SumOver(_, _)
SumOver(f, S) ==
    IF S = {}
    THEN 0
    ELSE LET x == CHOOSE y \in S : TRUE IN f[x] + SumOver(f, S \ {x})

\* The four totals of the records of a map or sequence.
TotalsOf(recs) ==
    <<SumOver([k \in DOMAIN recs |-> recs[k].TotalBets], DOMAIN recs),
      SumOver([k \in DOMAIN recs |-> recs[k].TotalWins], DOMAIN recs),
      SumOver([k \in DOMAIN recs |-> recs[k].TotalBetAmount], DOMAIN recs),
      SumOver([k \in DOMAIN recs |-> recs[k].TotalWinAmount], DOMAIN recs)>>

\* C24: the global bet count, win count, bet amount and win amount equal
\* the sums of these fields over the player records, over the game records
\* and over the hour buckets, during the fold and in the report, where
\* they are the Summary's; events of different days with the same hour of
\* day are in one bucket.
C24_TotalsAgree ==
    LET totals == <<totalBets, totalWins, totalBetAmount, totalWinAmount>> IN
    /\ TotalsOf(playerStats) = totals
    /\ TotalsOf(gameStats) = totals
    /\ TotalsOf(timeStats) = totals
    /\ pc = "done" =>
          /\ <<summary.TotalBets, summary.TotalWins, summary.TotalBetAmount,
               summary.TotalWinAmount>> = totals
          /\ TotalsOf(reportTimeStats) = totals
          /\ Len(reportTimeStats) =
                Cardinality({ClockHour(gameData[i].Timestamp) : i \in DOMAIN gameData})

\* A report over a bet of player A on g1 at 01:00, a bet of player B on g2
\* at 01:00 of the next day and a win of player B: two player records, two
\* game records and one hour bucket, with two bets.
C24_Witness ==
    /\ pc = "done"
    /\ Len(gameData) = 3
    /\ gameData[1].Timestamp = 3600 /\ gameData[2].Timestamp = 90000
    /\ DOMAIN playerStats = {"A", "B"}
    /\ DOMAIN gameStats = {"g1", "g2"}
    /\ summary.TotalBets = 2 /\ summary.TotalWins = 1
    /\ Len(reportTimeStats) = 1
    /\ reportTimeStats[1].Hour = 1
    /\ reportTimeStats[1].TotalBets = 2
    /\ reportTimeStats[1].TotalWinAmount = 2

\* C25: at every point of the fold totalBets + duplicateBets is the number
\* of SendBet events with a positive amount folded so far, and totalBets is
\* the number of distinct non-empty bet_ids on them plus the number of them
\* with an empty bet_id; likewise for SendWin events, totalWins and
\* duplicateWins.
C25_EveryBetAccounted ==
    LET bets == {i \in DOMAIN gameData : CountedBet(gameData[i])}
        wins == {i \in DOMAIN gameData : CountedWin(gameData[i])}
    IN /\ totalBets + duplicateBets = Cardinality(bets)
       /\ totalBets = Cardinality({gameData[i].BetID : i \in bets} \ {""})
                      + Cardinality({i \in bets : gameData[i].BetID = ""})
       /\ totalWins + duplicateWins = Cardinality(wins)
       /\ totalWins = Cardinality({gameData[i].WinID : i \in wins} \ {""})
                      + Cardinality({i \in wins : gameData[i].WinID = ""})

\* Three bets were folded, two with the identifier x and one without
\* identifier: two are counted and one is a duplicate.
C25_Witness ==
    /\ Len(gameData) = 3
    /\ \A i \in 1..3 : CountedBet(gameData[i])
    /\ gameData[1].BetID = "x" /\ gameData[2].BetID = "" /\ gameData[3].BetID = "x"
    /\ totalBets = 2
    /\ duplicateBets = 1

\* A SendBet (SendWin) event whose amount is zero or negative.
InertBet(e) == e.Message = "SendBet" /\ e.Bet <= 0
InertWin(e) == e.Message = "SendWin" /\ e.Win <= 0

\* C26: folding an inert bet or win that carries an identifier changes
\* neither ledger and neither duplicate counter, whether or not the
\* identifier was accepted before; and a bet (win) with a positive amount
\* whose identifier was on no earlier bet (win) with a positive amount is
\* counted, also when an inert event carried the identifier before.
C26_InertSkipsLedger ==
    [][FoldsOne =>
          /\ ((InertBet(Folded) /\ Folded.BetID # "")
                 \/ (InertWin(Folded) /\ Folded.WinID # "")) =>
                UNCHANGED <<uniqueBetIDs, uniqueWinIDs, duplicateBets,
                            duplicateWins, totalBets, totalWins,
                            totalBetAmount, totalWinAmount>>
          /\ (CountedBet(Folded) /\ Folded.BetID # ""
                 /\ ~LaterBetAt(gameData', FoldedAt)) =>
                /\ totalBets' = totalBets + 1
                /\ totalBetAmount' = totalBetAmount + Folded.Bet
                /\ duplicateBets' = duplicateBets
          /\ (CountedWin(Folded) /\ Folded.WinID # ""
                 /\ ~LaterWinAt(gameData', FoldedAt)) =>
                /\ totalWins' = totalWins + 1
                /\ totalWinAmount' = totalWinAmount + Folded.Win
                /\ duplicateWins' = duplicateWins]_vars

\* A bet of amount zero with the identifier x, then a bet of amount 1 with
\* x, then the zero bet again: one bet counted, no duplicate.
C26_Witness ==
    /\ Len(gameData) = 3
    /\ InertBet(gameData[1]) /\ gameData[1].BetID = "x"
    /\ CountedBet(gameData[2]) /\ gameData[2].BetID = "x"
    /\ gameData[3] = gameData[1]
    /\ totalBets = 1
    /\ duplicateBets = 0
    /\ uniqueBetIDs = {"x"}

\* C27: in the report every player record's PlayerID is the key it is
\* stored under and every game record's GameID is its key, also for
\* players and games with accepted wins and no accepted bet.
C27_RecordsNameTheirKey ==
    pc = "done" =>
      /\ \A p \in DOMAIN playerStats : playerStats[p].PlayerID = p
      /\ \A g \in DOMAIN gameStats : gameStats[g].GameID = g

\* C28: after folding a non-empty stream the tracked minimum timestamp is
\* the least timestamp of its events and the tracked maximum the greatest,
\* whatever the order and the values of the timestamps, zero and negative
\* ones included.
C28_TrueTimeBounds ==
    gameData # <<>> =>
      /\ minTime = MinTimestamp(gameData)
      /\ maxTime = MaxTimestamp(gameData)

IsDigit(c) == \E k \in DOMAIN DigitChars : DigitChars[k] = c

\* The number a sequence of digits, with or without a leading minus sign,
\* stands for.
RECURSIVE NumberOf(_)
NumberOf(q) ==
    IF q = <<>>
    THEN 0
    ELSE IF q[1] = "-"
         THEN -NumberOf(Tail(q))
         ELSE LET d == (CHOOSE k \in DOMAIN DigitChars : DigitChars[k] = q[Len(q)]) - 1
              IN 10 * NumberOf(SubSeq(q, 1, Len(q) - 1)) + d

\* C29: formatCurrency returns the decimal representation of the amount
\* with commas between digits only, one before every group of three digits
\* counted from the right: without the commas it is the decimal string of
\* the amount, and no comma is at either end or next to the minus sign.
C29_CommasBetweenDigits ==
    pc = "formatted" =>
      LET r      == formatted
          plain  == SelectSeq(r, LAMBDA c : c # ",")
          Right(k) == Cardinality({j \in DOMAIN r : j > k /\ IsDigit(r[j])})
      IN /\ \A k \in DOMAIN plain : IsDigit(plain[k]) \/ (k = 1 /\ plain[k] = "-")
         /\ \E k \in DOMAIN plain : IsDigit(plain[k])
         /\ NumberOf(plain) = fcAmount
         /\ \A k \in DOMAIN r :
               r[k] = "," =>
                  /\ k > 1 /\ k < Len(r)
                  /\ IsDigit(r[k - 1]) /\ IsDigit(r[k + 1])
         /\ \A k \in DOMAIN r :
               (IsDigit(r[k]) /\ k < Len(r)) =>
                  (r[k + 1] = "," <=> (Right(k) > 0 /\ Right(k) % 3 = 0))

=============================================================================
